---- MODULE Spec2Model ----
(***************************************************************************)
(* A model of execdump's PE decoding engine (src/src/pe.rs): parse_pe and  *)
(* the structure decoders it calls, over a byte buffer, followed by calls  *)
(* of PE::convert_rva_to_file_offset on the parsed image.                  *)
(*                                                                         *)
(* Numbers wider than 16 bits (u32, u64) are kept as little-endian byte    *)
(* tuples of their exact width (4 or 8 bytes), which is how they lie in    *)
(* the file; arithmetic on them is done byte by byte with carry, so wraps  *)
(* and overflow aborts happen exactly at 2^32 and 2^64.                    *)
(***************************************************************************)
EXTENDS Integers, Sequences, FiniteSets, TLC

VARIABLES
    file,               \* the path given to parse_pe: [exists, readable, name, content]
    overflow_checks,    \* the build: TRUE when integer overflow aborts (debug profile)
    pc,                 \* the place parse_pe has reached, or its outcome
    err,                \* the error message returned, or the panic message
    data,               \* pe.data, the bytes read from the file
    position,           \* cursor.position(), a u64
    max_read,           \* one past the highest buffer offset read so far
    dos,                \* pe.header.dos
    nt,                 \* pe.header.nt
    optional_magic,     \* the peeked Optional Header magic
    start_of_optional_position,
    optional,           \* pe.header.optional
    sections,           \* pe.sections: HashMap<String, Section>, name -> header
    section_order,      \* the order in which pe.sections.values() yields the map
    sections_read,      \* iterations of the section loop done so far
    section_starts,     \* cursor position at the start of each section record read
    import_descriptors, \* the descriptors collected so far
    import_file_offset, \* where the import table was found, or None
    dll_names,          \* the DLL names collected so far
    rva_query,          \* the rva of the last convert_rva_to_file_offset call on the image
    rva_result,         \* and what the call returned
    entry,              \* the last import table entry decoded on its own, and from what
    tick                \* parity of the number of steps parse_pe has executed

vars == <<file, overflow_checks, pc, err, data, position, max_read, dos, nt,
          optional_magic, start_of_optional_position, optional, sections,
          section_order, sections_read, section_starts, import_descriptors,
          import_file_offset, dll_names, rva_query, rva_result, entry, tick>>

(***************************************************************************)
(* Fixed-width little-endian numbers.                                      *)
(***************************************************************************)
Byte == 0..255

Max(a, b) == IF a >= b THEN a ELSE b

\* n < 2^31 as a w-byte little-endian number
RECURSIVE LE(_, _)
LE(n, w) == IF w = 0 THEN <<>> ELSE <<n % 256>> \o LE(n \div 256, w - 1)

U16(n) == LE(n, 2)
U32(n) == LE(n, 4)
U64(n) == LE(n, 8)

Zeros(n) == [i \in 1..n |-> 0]

\* the value of a little-endian number known to be below 2^24
ToNat(a) ==
    (IF Len(a) >= 1 THEN a[1] ELSE 0)
    + (IF Len(a) >= 2 THEN a[2] * 256 ELSE 0)
    + (IF Len(a) >= 3 THEN a[3] * 65536 ELSE 0)

IsSmall(a) == \A i \in 4..Len(a) : a[i] = 0

IsZero(a) == \A i \in 1..Len(a) : a[i] = 0

\* `x as u64` for a u32, `x as u32` and `x as u16` for truncations
Widen(a, w) == a \o Zeros(w - Len(a))
Truncate(a, w) == SubSeq(a, 1, w)

\* a + b + c with the carry out as the last element
RECURSIVE AddCarry(_, _, _)
AddCarry(a, b, c) ==
    IF a = <<>> THEN <<c>>
    ELSE LET s == a[1] + b[1] + c
         IN  <<s % 256>> \o AddCarry(Tail(a), Tail(b), s \div 256)

AddOverflows(a, b) == AddCarry(a, b, 0)[Len(a) + 1] = 1
WrappingAdd(a, b) == SubSeq(AddCarry(a, b, 0), 1, Len(a))

\* a - b - c with the borrow out as the last element
RECURSIVE SubBorrow(_, _, _)
SubBorrow(a, b, c) ==
    IF a = <<>> THEN <<c>>
    ELSE LET d == a[1] - b[1] - c
         IN  <<d % 256>> \o SubBorrow(Tail(a), Tail(b), IF d < 0 THEN 1 ELSE 0)

SubOverflows(a, b) == SubBorrow(a, b, 0)[Len(a) + 1] = 1
WrappingSub(a, b) == SubSeq(SubBorrow(a, b, 0), 1, Len(a))

\* a < b and a >= b on unsigned numbers of one width
Lt(a, b) == SubOverflows(a, b)
Ge(a, b) == ~Lt(a, b)

\* bitwise and of a with a mask, byte by byte
RECURSIVE BitAnd8(_, _, _)
BitAnd8(x, m, k) ==
    IF k = 0 THEN 0
    ELSE (IF x % 2 = 1 /\ m % 2 = 1 THEN 1 ELSE 0)
         + 2 * BitAnd8(x \div 2, m \div 2, k - 1)

BitAnd(a, m) == [i \in 1..Len(a) |-> BitAnd8(a[i], m[i], 8)]

(***************************************************************************)
(* The cursor: io::Cursor<&Vec<u8>> read through byteorder::ReadBytesExt.  *)
(* A read of n bytes succeeds when n bytes lie between the position and    *)
(* the end of the buffer, and fails (UnexpectedEof) otherwise.             *)
(***************************************************************************)
\* Option<u64>, and the abort of a call that panics
None == [kind |-> "None", value |-> <<>>]
Some(v) == [kind |-> "Some", value |-> v]
Panic == [kind |-> "panic", value |-> <<>>]

\* no call made yet
Unasked == [kind |-> "unasked", value |-> <<>>]

\* no import table entry decoded yet
NoEntry == [kind |-> "none"]

EofMessage == "failed to fill whole buffer"

AddNat(pos, n) == WrappingAdd(pos, LE(n, Len(pos)))

read_exact(d, pos, n) ==
    IF IsSmall(pos) /\ ToNat(pos) + n <= Len(d)
    THEN [ok |-> TRUE,
          value |-> SubSeq(d, ToNat(pos) + 1, ToNat(pos) + n),
          position |-> AddNat(pos, n)]
    ELSE [ok |-> FALSE, value |-> <<>>, position |-> pos]

\* the sum of widths[lo..hi]
RECURSIVE SumWidths(_, _, _)
SumWidths(widths, lo, hi) ==
    IF lo > hi THEN 0
    ELSE IF lo = hi THEN widths[lo]
    ELSE LET mid == (lo + hi) \div 2
         IN  SumWidths(widths, lo, mid) + SumWidths(widths, mid + 1, hi)

\* a run of reads of the given widths, one after the other, each propagating its
\* failure with `?`: field i is read where the fields before it end; on failure,
\* position is where the failing read started
ReadFields(d, pos, widths) ==
    LET n == Len(widths)
        Off(i) == SumWidths(widths, 1, i - 1)
        At(i) == AddNat(pos, Off(i))
        bad == {i \in 1..n : ~read_exact(d, At(i), widths[i]).ok}
    IN  IF bad = {}
        THEN [ok |-> TRUE,
              values |-> [i \in 1..n |-> read_exact(d, At(i), widths[i]).value],
              position |-> At(n + 1)]
        ELSE [ok |-> FALSE,
              values |-> <<>>,
              position |-> At(CHOOSE i \in bad : \A j \in bad : i <= j)]

\* one past the highest offset a run of reads from `from` to `to` has read
HighRead(from, to) == IF to = from THEN 0 ELSE ToNat(to)

\* what a decoder returns: Ok(value), Err(message) or a panic, with the cursor
\* position it leaves and the high-water mark of the bytes it read
Decoded(v, pos, hi) ==
    [kind |-> "ok", value |-> v, err |-> "", position |-> pos, hi |-> hi]
Failed(msg, pos, hi) ==
    [kind |-> "err", value |-> <<>>, err |-> msg, position |-> pos, hi |-> hi]
Panicked(msg, pos, hi) ==
    [kind |-> "panic", value |-> <<>>, err |-> msg, position |-> pos, hi |-> hi]

(***************************************************************************)
(* MS-DOS header                                                           *)
(***************************************************************************)
DOS_MAGIC == 23117          \* 0x5a4d

E_LFANEW_OFFSET == 60       \* 0x3C

DefaultDOSHeader == [e_magic |-> U16(0), e_lfanew |-> U32(0)]

\* the same decoder with the magic tested only after e_lfanew was read
DOSHeader_from_parser_LateCheck(d, pos) ==
    LET m == read_exact(d, pos, 2)
        l == read_exact(d, U64(E_LFANEW_OFFSET), 4)
    IN  IF ~m.ok THEN Failed(EofMessage, pos, 0)
        ELSE IF ~l.ok THEN Failed(EofMessage, U64(E_LFANEW_OFFSET), 2)
        ELSE IF m.value # U16(DOS_MAGIC)
             THEN Failed("Invalid DOS magic number", l.position, ToNat(l.position))
        ELSE Decoded([e_magic |-> m.value, e_lfanew |-> l.value],
                     l.position, ToNat(l.position))

DOSHeader_from_parser(d, pos) ==
    LET m == read_exact(d, pos, 2)
    IN  IF ~m.ok THEN Failed(EofMessage, pos, 0)
        ELSE IF m.value # U16(DOS_MAGIC)
             THEN Failed("Invalid DOS magic number", m.position, ToNat(m.position))
        ELSE LET l == read_exact(d, U64(E_LFANEW_OFFSET), 4)
             IN  IF ~l.ok
                 THEN Failed(EofMessage, U64(E_LFANEW_OFFSET), ToNat(m.position))
                 ELSE Decoded([e_magic |-> m.value, e_lfanew |-> l.value],
                              l.position, ToNat(l.position))

(***************************************************************************)
(* COFF header and NT header                                               *)
(***************************************************************************)
DefaultCOFFHeader ==
    [machine |-> U16(0), number_of_sections |-> U16(0), time_date_stamp |-> U32(0),
     pointer_to_symbol_table |-> U32(0), number_of_symbols |-> U32(0),
     size_of_optional_header |-> U16(0), characteristics |-> U16(0)]

COFFHeader_from_parser(d, pos) ==
    LET r == ReadFields(d, pos, <<2, 2, 4, 4, 4, 2, 2>>)
    IN  IF ~r.ok THEN Failed(EofMessage, r.position, HighRead(pos, r.position))
        ELSE Decoded([machine |-> r.values[1],
                      number_of_sections |-> r.values[2],
                      time_date_stamp |-> r.values[3],
                      pointer_to_symbol_table |-> r.values[4],
                      number_of_symbols |-> r.values[5],
                      size_of_optional_header |-> r.values[6],
                      characteristics |-> r.values[7]],
                     r.position, ToNat(r.position))

NT_PE_SIGNATURE == 17744    \* 0x4550

DefaultNTHeader == [signature |-> U32(0), coff_header |-> DefaultCOFFHeader]

\* the same decoder without the signature test
NTHeader_from_parser_NoCheck(d, pos) ==
    LET s == read_exact(d, pos, 4)
    IN  IF ~s.ok THEN Failed(EofMessage, pos, 0)
        ELSE LET c == COFFHeader_from_parser(d, s.position)
             IN  IF c.kind # "ok"
                 THEN [c EXCEPT !.hi = Max(c.hi, ToNat(s.position))]
                 ELSE Decoded([signature |-> s.value, coff_header |-> c.value],
                              c.position, c.hi)

NTHeader_from_parser(d, pos) ==
    LET s == read_exact(d, pos, 4)
    IN  IF ~s.ok THEN Failed(EofMessage, pos, 0)
        ELSE IF s.value # U32(NT_PE_SIGNATURE)
             THEN Failed("Invalid PE signature in NT Header",
                         s.position, ToNat(s.position))
        ELSE LET c == COFFHeader_from_parser(d, s.position)
             IN  IF c.kind # "ok"
                 THEN [c EXCEPT !.hi = Max(c.hi, ToNat(s.position))]
                 ELSE Decoded([signature |-> s.value, coff_header |-> c.value],
                              c.position, c.hi)

(***************************************************************************)
(* Optional header, 32 and 64 bits                                         *)
(***************************************************************************)
PE_FORMAT_32_MAGIC == 267   \* 0x10b
PE_FORMAT_64_MAGIC == 523   \* 0x20b

NumberOfDataDirectories == 16

ImageDataDirectory_widths == <<4, 4>>

Repeat(s, n) == [i \in 1..(n * Len(s)) |-> s[((i - 1) % Len(s)) + 1]]

\* the data directories decoded from the values of a run of reads, from index k on
DataDirectories(values, k) ==
    [i \in 1..NumberOfDataDirectories |->
        [virtual_address |-> values[k + 2 * (i - 1)],
         size |-> values[k + 2 * (i - 1) + 1]]]

OptionalHeader32_widths ==
    <<2, 1, 1, 4, 4, 4, 4, 4, 4,
      4, 4, 4, 2, 2, 2, 2, 2, 2, 4, 4, 4, 4, 2, 2, 4, 4, 4, 4, 4, 4>>
    \o Repeat(ImageDataDirectory_widths, NumberOfDataDirectories)

OptionalHeader64_widths ==
    <<2, 1, 1, 4, 4, 4, 4, 4,
      8, 4, 4, 2, 2, 2, 2, 2, 2, 4, 4, 4, 4, 2, 2, 8, 8, 8, 8, 4, 4>>
    \o Repeat(ImageDataDirectory_widths, NumberOfDataDirectories)

\* Of the decoded fields the model keeps those the parse or a claim reads.
OptionalHeader32_from_parser(d, pos) ==
    LET r == ReadFields(d, pos, OptionalHeader32_widths)
    IN  IF ~r.ok THEN Failed(EofMessage, r.position, HighRead(pos, r.position))
        ELSE Decoded([variant |-> "PE32",
                      magic |-> r.values[1],
                      address_of_entry_point |-> r.values[7],
                      base_of_code |-> r.values[8],
                      image_base |-> r.values[10],
                      number_of_rva_and_sizes |-> r.values[30],
                      data_directories |-> DataDirectories(r.values, 31)],
                     r.position, ToNat(r.position))

OptionalHeader64_from_parser(d, pos) ==
    LET r == ReadFields(d, pos, OptionalHeader64_widths)
    IN  IF ~r.ok THEN Failed(EofMessage, r.position, HighRead(pos, r.position))
        ELSE Decoded([variant |-> "PE64",
                      magic |-> r.values[1],
                      address_of_entry_point |-> r.values[7],
                      base_of_code |-> r.values[8],
                      image_base |-> r.values[9],
                      number_of_rva_and_sizes |-> r.values[29],
                      data_directories |-> DataDirectories(r.values, 30)],
                     r.position, ToNat(r.position))

\* OptionalHeader::default()
DefaultOptionalHeader ==
    [variant |-> "PE64", magic |-> U16(0), address_of_entry_point |-> U32(0),
     base_of_code |-> U32(0), image_base |-> U64(0),
     number_of_rva_and_sizes |-> U32(0),
     data_directories |->
        [i \in 1..NumberOfDataDirectories |->
            [virtual_address |-> U32(0), size |-> U32(0)]]]

(***************************************************************************)
(* Section header.  A name is the sequence of its bytes.                   *)
(***************************************************************************)
SLASH == 47                 \* 0x2F, '/'

EmptyName == <<101, 109, 112, 116, 121>>    \* "empty"

SECTION_SKIP == 39

INLINE_NAME_REST == 7

DefaultSectionHeader ==
    [name |-> <<>>, virtual_size |-> U32(0), virtual_address |-> U32(0),
     size_of_raw_data |-> U32(0), ptr_to_raw_data |-> U32(0),
     pointer_to_relocations |-> U32(0), pointer_to_line_numbers |-> U32(0),
     number_of_relocations |-> U16(0), number_of_line_numbers |-> U16(0),
     characteristics |-> U32(0)]

\* String::from_utf8(bytes).is_ok()
IsContinuation(b) == b \in 128..191

RECURSIVE Utf8Valid(_)
Utf8Valid(s) ==
    IF s = <<>> THEN TRUE
    ELSE LET b == s[1]
             n == Len(s)
             After(k) == Utf8Valid(SubSeq(s, k + 1, n))
         IN  IF b < 128 THEN After(1)
             ELSE IF b \in 194..223
                  THEN n >= 2 /\ IsContinuation(s[2]) /\ After(2)
             ELSE IF b \in 224..239
                  THEN /\ n >= 3
                       /\ s[2] \in (IF b = 224 THEN 160..191
                                    ELSE IF b = 237 THEN 128..159 ELSE 128..191)
                       /\ IsContinuation(s[3])
                       /\ After(3)
             ELSE IF b \in 240..244
                  THEN /\ n >= 4
                       /\ s[2] \in (IF b = 240 THEN 144..191
                                    ELSE IF b = 244 THEN 128..143 ELSE 128..191)
                       /\ IsContinuation(s[3])
                       /\ IsContinuation(s[4])
                       /\ After(4)
             ELSE FALSE

\* the bytes the name loop pushes: every byte read that is not NUL
NonZero(b) == b # 0

\* the same with the NUL bytes pushed too
InlineName_KeepNul(first, rest) == <<first>> \o rest

InlineName(first, rest) == <<first>> \o SelectSeq(rest, NonZero)

\* the same branch with the loop over the name run once more (0..8)
NamedSection_ReadEight(d, first, pos) ==
    LET nm == ReadFields(d, pos, [i \in 1..(INLINE_NAME_REST + 1) |-> 1])
    IN  IF ~nm.ok THEN Failed(EofMessage, nm.position, ToNat(nm.position))
        ELSE LET name_buffer ==
                     InlineName(first, [i \in 1..(INLINE_NAME_REST + 1) |-> nm.values[i][1]])
                 r == ReadFields(d, nm.position, <<4, 4, 4, 4, 4, 4, 2, 2, 4>>)
             IN  IF ~Utf8Valid(name_buffer)
                 THEN Panicked("Invalid section name found in PE",
                               nm.position, ToNat(nm.position))
                 ELSE IF ~r.ok
                 THEN Failed(EofMessage, r.position, ToNat(r.position))
                 ELSE Decoded([name |-> name_buffer,
                               virtual_size |-> r.values[1],
                               virtual_address |-> r.values[2],
                               size_of_raw_data |-> r.values[3],
                               ptr_to_raw_data |-> r.values[4],
                               pointer_to_relocations |-> r.values[5],
                               pointer_to_line_numbers |-> r.values[6],
                               number_of_relocations |-> r.values[7],
                               number_of_line_numbers |-> r.values[8],
                               characteristics |-> r.values[9]],
                              r.position, ToNat(r.position))


\* the branch of a first name byte other than '/' and NUL: seven more name bytes,
\* then the numeric fields; pos is the position after the first byte
NamedSection(d, first, pos) ==
    LET nm == ReadFields(d, pos, [i \in 1..INLINE_NAME_REST |-> 1])
    IN  IF ~nm.ok THEN Failed(EofMessage, nm.position, ToNat(nm.position))
        ELSE LET name_buffer ==
                     InlineName(first, [i \in 1..INLINE_NAME_REST |-> nm.values[i][1]])
                 r == ReadFields(d, nm.position, <<4, 4, 4, 4, 4, 4, 2, 2, 4>>)
             IN  IF ~Utf8Valid(name_buffer)
                 THEN Panicked("Invalid section name found in PE",
                               nm.position, ToNat(nm.position))
                 ELSE IF ~r.ok
                 THEN Failed(EofMessage, r.position, ToNat(r.position))
                 ELSE Decoded([name |-> name_buffer,
                               virtual_size |-> r.values[1],
                               virtual_address |-> r.values[2],
                               size_of_raw_data |-> r.values[3],
                               ptr_to_raw_data |-> r.values[4],
                               pointer_to_relocations |-> r.values[5],
                               pointer_to_line_numbers |-> r.values[6],
                               number_of_relocations |-> r.values[7],
                               number_of_line_numbers |-> r.values[8],
                               characteristics |-> r.values[9]],
                              r.position, ToNat(r.position))

\* the same branch taken with the whole record skipped from after the first byte
EmptySection_SkipRecord(pos) ==
    Decoded([DefaultSectionHeader EXCEPT !.name = EmptyName],
            AddNat(pos, SECTION_SKIP + 1), ToNat(pos))

\* the same branch with the skip taken as an absolute position
EmptySection_AbsoluteSkip(pos) ==
    Decoded([DefaultSectionHeader EXCEPT !.name = EmptyName],
            U64(SECTION_SKIP), ToNat(pos))

\* the branch of a first name byte NUL: the name "empty", the rest of the record
\* skipped with set_position; pos is the position after the first byte
EmptySection(pos) ==
    Decoded([DefaultSectionHeader EXCEPT !.name = EmptyName],
            AddNat(pos, SECTION_SKIP), ToNat(pos))

\* the branch of a first name byte '/': todo!()
IndirectSection(pos) ==
    Panicked("not yet implemented: Need to implement section header name finding in string table",
             pos, ToNat(pos))

SectionHeader_from_parser(d, pos) ==
    LET f == read_exact(d, pos, 1)
    IN  IF ~f.ok THEN Failed(EofMessage, pos, 0)
        ELSE IF f.value[1] = SLASH THEN IndirectSection(f.position)
        ELSE IF f.value[1] = 0 THEN EmptySection(f.position)
        ELSE NamedSection(d, f.value[1], f.position)

(***************************************************************************)
(* Import descriptor                                                       *)
(***************************************************************************)
ImageImportDescriptor_from_parser(d, pos) ==
    LET r == ReadFields(d, pos, <<4, 4, 4, 4, 4>>)
    IN  IF ~r.ok THEN Failed(EofMessage, r.position, HighRead(pos, r.position))
        ELSE Decoded([import_lookup_table_rva |-> r.values[1],
                      time_date_stamp |-> r.values[2],
                      forwarder_chain |-> r.values[3],
                      name_rva |-> r.values[4],
                      import_address_table_rva |-> r.values[5]],
                     r.position, ToNat(r.position))

is_zeroed_out(desc) ==
    /\ IsZero(desc.import_lookup_table_rva)
    /\ IsZero(desc.time_date_stamp)
    /\ IsZero(desc.forwarder_chain)
    /\ IsZero(desc.name_rva)
    /\ IsZero(desc.import_address_table_rva)

DESCRIPTOR_CAP == 256

\* parse_import_descriptors stops once the list is longer than the cap
CapReached(descriptors) == Len(descriptors) > DESCRIPTOR_CAP

(***************************************************************************)
(* PE: the queries on the image                                            *)
(***************************************************************************)
is_32_bits(opt) == opt.variant = "PE32"

get_size_of_optional_header(ntheader) ==
    Widen(ntheader.coff_header.size_of_optional_header, 8)

get_number_of_sections(ntheader) == ToNat(ntheader.coff_header.number_of_sections)

IMPORT_TABLE_INDEX == 2

get_import_table_idd(opt) == opt.data_directories[IMPORT_TABLE_INDEX]

\* One section's test and result.  `start + virtual_size` is a u32 addition:
\* it aborts when the build checks overflow and wraps when it does not.
SectionLookup(h, rva, checks) ==
    LET start == h.virtual_address
        end == WrappingAdd(start, h.virtual_size)
    IN  IF checks /\ AddOverflows(start, h.virtual_size) THEN Panic
        ELSE IF Ge(rva, start) /\ Lt(rva, end)
             THEN LET offset_in_section == Widen(WrappingSub(rva, start), 8)
                  IN  Some(WrappingAdd(Widen(h.ptr_to_raw_data, 8), offset_in_section))
             ELSE None

\* the loop over self.sections.values(), which yields the map in `order`
RECURSIVE ScanSections(_, _, _, _, _)
ScanSections(secs, order, i, rva, checks) ==
    IF i > Len(order) THEN None
    ELSE LET r == SectionLookup(secs[order[i]], rva, checks)
         IN  IF r.kind = "None" THEN ScanSections(secs, order, i + 1, rva, checks)
             ELSE r

convert_rva_to_file_offset(secs, order, rva, checks) ==
    ScanSections(secs, order, 1, rva, checks)

(***************************************************************************)
(* The files the model parses.  A file is laid out as the format lays it   *)
(* out: DOS stub, NT signature, COFF header, Optional Header, section      *)
(* records, then raw data from RAW_BASE on.                                *)
(***************************************************************************)
DotExe == <<46, 101, 120, 101>>     \* ".exe"
DotDll == <<46, 100, 108, 108>>     \* ".dll"

MaxSections == 2        \* section records of a file of the section family
MaxStream == 2          \* descriptors of a short import stream
MaxOverCap == 2         \* descriptors a long import stream holds beyond the cap

RAW_BASE == 2 * 512     \* 0x400, where the raw data of the fixtures starts

RECURSIVE FlattenRange(_, _, _)
FlattenRange(ss, lo, hi) ==
    IF lo > hi THEN <<>>
    ELSE IF lo = hi THEN ss[lo]
    ELSE LET mid == (lo + hi) \div 2
         IN  FlattenRange(ss, lo, mid) \o FlattenRange(ss, mid + 1, hi)

Flatten(ss) == FlattenRange(ss, 1, Len(ss))

PadTo(s, n) == s \o Zeros(n - Len(s))

DosStub(magic, lfanew) ==
    PadTo(PadTo(magic, E_LFANEW_OFFSET) \o U32(lfanew), lfanew)

CoffBytes(nsections, optsize) ==
    U16(332) \o U16(nsections) \o U32(0) \o U32(0) \o U32(0) \o U16(optsize) \o U16(258)

ImageBase32 == <<0, 0, 64, 0>>                  \* 0x00400000
ImageBase64 == <<0, 0, 0, 64, 1, 0, 0, 0>>      \* 0x0000000140000000

\* an Optional Header of the 32-bit layout with the given magic
Opt32Bytes(magic, import_dir) ==
    Flatten([i \in 1..Len(OptionalHeader32_widths) |->
        IF i = 1 THEN U16(magic)
        ELSE IF i = 7 THEN U32(4096)
        ELSE IF i = 10 THEN ImageBase32
        ELSE IF i = 30 THEN U32(NumberOfDataDirectories)
        ELSE IF i = 33 THEN import_dir.virtual_address
        ELSE IF i = 34 THEN import_dir.size
        ELSE Zeros(OptionalHeader32_widths[i])])

Opt64Bytes(magic, import_dir) ==
    Flatten([i \in 1..Len(OptionalHeader64_widths) |->
        IF i = 1 THEN U16(magic)
        ELSE IF i = 7 THEN U32(4096)
        ELSE IF i = 9 THEN ImageBase64
        ELSE IF i = 29 THEN U32(NumberOfDataDirectories)
        ELSE IF i = 32 THEN import_dir.virtual_address
        ELSE IF i = 33 THEN import_dir.size
        ELSE Zeros(OptionalHeader64_widths[i])])

OptBytes(magic, import_dir) ==
    IF magic = PE_FORMAT_64_MAGIC THEN Opt64Bytes(magic, import_dir)
    ELSE Opt32Bytes(magic, import_dir)

SectionRecord(name, vsize, va, ptr) ==
    PadTo(name, 8) \o vsize \o va \o U32(512) \o ptr \o Zeros(12) \o <<32, 0, 0, 96>>

DescriptorRecord(name_rva) == U32(0) \o U32(0) \o U32(0) \o name_rva \o U32(0)

\* a stream of n equal descriptors, with or without its terminator
Stream(n, name_rva, terminated) ==
    [i \in 1..(20 * n) |-> DescriptorRecord(name_rva)[((i - 1) % 20) + 1]]
    \o (IF terminated THEN Zeros(20) ELSE <<>>)

\* the raw data of the file described by p: a payload, then the import stream
RawData(p) ==
    p.raw \o (IF p.stream.n < 0 THEN <<>>
              ELSE Stream(p.stream.n, p.stream.name_rva, p.stream.terminated))

\* the bytes of the file described by p
Image(p) ==
    LET opt == OptBytes(p.opt_magic, p.import_dir)
        headers == DosStub(p.dos_magic, p.lfanew) \o p.signature
                   \o CoffBytes(Len(p.secs), Len(opt) + p.opt_extra)
                   \o opt \o Zeros(p.opt_extra) \o Flatten(p.secs)
        raw == RawData(p)
        whole == IF raw = <<>> THEN headers ELSE PadTo(headers, RAW_BASE) \o raw
    IN  IF p.cut < 0 THEN whole ELSE SubSeq(whole, 1, p.cut)

NameText == <<46, 116, 101, 120, 116>>          \* ".text"
NameData == <<46, 100, 97, 116, 97>>            \* ".data"
NameHigh == <<46, 104, 105, 103, 104>>          \* ".high"
NameZero == <<46, 122, 101, 114, 111>>          \* ".zero"
NameIdata == <<46, 105, 100, 97, 116, 97>>      \* ".idata"

HighAddress == <<0, 240, 255, 255>>             \* 0xFFFFF000

TextRecord == SectionRecord(NameText, U32(4096), U32(4096), U32(1024))
DataRecord == SectionRecord(NameData, U32(4096), U32(6144), U32(2048))
HighRecord == SectionRecord(NameHigh, U32(8192), HighAddress, U32(1536))
ZeroRecord == SectionRecord(NameZero, U32(4096), U32(0), U32(1024))
\* a record whose first name byte is NUL and whose other bytes are those of .text
EmptyRecord == <<0>> \o SubSeq(TextRecord, 2, 40)
\* a record whose first name byte is '/' and whose other bytes are those of .text
IndirectRecord == <<SLASH>> \o SubSeq(TextRecord, 2, 40)
IdataRecord == SectionRecord(NameIdata, U32(8192), U32(8192), U32(1024))

NoDirectory == [virtual_address |-> U32(0), size |-> U32(0)]

\* the fixture of a minimal well-formed PE32 file
MinimalPE32 ==
    [dos_magic |-> U16(DOS_MAGIC), lfanew |-> 128, signature |-> U32(NT_PE_SIGNATURE),
     opt_magic |-> PE_FORMAT_32_MAGIC, opt_extra |-> 0, secs |-> <<TextRecord>>,
     import_dir |-> NoDirectory, raw |-> <<>>,
     stream |-> [n |-> -1, name_rva |-> U32(0), terminated |-> FALSE], cut |-> -1]

GoodName == <<97>> \o DotExe                    \* "a.exe"

\* files that differ in the header magics
DosMagics == {U16(DOS_MAGIC), <<90, 77>>, <<77, 91>>, U16(0)}
Signatures == {U32(NT_PE_SIGNATURE), <<80, 69, 0, 1>>, <<78, 69, 0, 0>>}
OptionalMagics == {PE_FORMAT_32_MAGIC, PE_FORMAT_64_MAGIC, 263, 0}

HeaderFamily ==
    {[MinimalPE32 EXCEPT !.dos_magic = m, !.lfanew = l, !.signature = s, !.opt_magic = o] :
        m \in DosMagics, l \in {64, 128}, s \in Signatures, o \in OptionalMagics}

\* files cut short at every structure boundary and inside the structures
Cuts == {0, 1, 2, 62, 64, 130, 132, 140, 152, 153, 154, 200, 376, 392, 400, 415}

TruncatedFamily ==
    {[MinimalPE32 EXCEPT !.opt_magic = o, !.cut = c] :
        o \in {PE_FORMAT_32_MAGIC, PE_FORMAT_64_MAGIC}, c \in Cuts}

\* files that differ in the section table; raw data that is not zero
SectionShapes == {TextRecord, DataRecord, HighRecord, ZeroRecord, EmptyRecord}

SectionTables == UNION {[1..n -> SectionShapes] : n \in 0..MaxSections}

RawPayload == [i \in 1..32 |-> 144] \o Zeros(32)

SectionFamily ==
    {[MinimalPE32 EXCEPT !.secs = t, !.raw = RawPayload] : t \in SectionTables}

\* files whose COFF header declares an Optional Header larger or smaller than the
\* variant decoded
OptionalSizeFamily ==
    {[MinimalPE32 EXCEPT !.opt_magic = o, !.opt_extra = x] :
        o \in {PE_FORMAT_32_MAGIC, PE_FORMAT_64_MAGIC}, x \in {8, -8, -224}}

\* files with a section whose name lies in the string table
IndirectFamily ==
    {[MinimalPE32 EXCEPT !.secs = t] :
        t \in {<<IndirectRecord>>, <<TextRecord, IndirectRecord>>,
               <<EmptyRecord, IndirectRecord>>}}

\* files with an import table in .idata: the DLL name "k.dll" at its start,
\* then a stream of descriptors, with or without its terminator
Kernel == PadTo(<<107, 46, 100, 108, 108>>, 16)

NameRvas == {U32(8192), U32(36864)}

ImportFile(o, n, r, t) ==
    [MinimalPE32 EXCEPT !.opt_magic = o,
                        !.secs = <<TextRecord, IdataRecord>>,
                        !.import_dir = [virtual_address |-> U32(8192 + 16),
                                        size |-> U32(40)],
                        !.raw = Kernel,
                        !.stream = [n |-> n, name_rva |-> r, terminated |-> t]]

ImportFamily ==
    {ImportFile(o, n, r, t) :
        o \in {PE_FORMAT_32_MAGIC, PE_FORMAT_64_MAGIC},
        n \in 0..MaxStream, r \in NameRvas, t \in BOOLEAN}
    \cup {ImportFile(PE_FORMAT_32_MAGIC, n, U32(8192), TRUE) :
        n \in (DESCRIPTOR_CAP - 1)..(DESCRIPTOR_CAP + MaxOverCap)}
    \cup {ImportFile(PE_FORMAT_32_MAGIC, DESCRIPTOR_CAP + 1, U32(8192), FALSE)}

\* files whose offsets point before the structures that hold them: an e_lfanew
\* inside the DOS header, an import table whose section has its raw data at the
\* start of the file
LowRecord == SectionRecord(NameIdata, U32(8192), U32(8192), U32(0))

LowOffsetFamily ==
    {[MinimalPE32 EXCEPT !.lfanew = 0],
     [MinimalPE32 EXCEPT !.secs = <<LowRecord>>,
                         !.import_dir = [virtual_address |-> U32(8192 + 16),
                                         size |-> U32(40)]]}

\* files with a section whose inline name holds a NUL before its last letter
NameGap == <<97, 0, 98>>                        \* "a\0b"

GapRecord == SectionRecord(NameGap, U32(4096), U32(12288), U32(1024))

EmbeddedNulFamily ==
    {[MinimalPE32 EXCEPT !.secs = t] :
        t \in {<<GapRecord>>, <<TextRecord, GapRecord>>, <<GapRecord, EmptyRecord>>}}

\* files with two section records of the same name and different fields
OtherTextRecord == SectionRecord(NameText, U32(512), U32(16384), U32(2048))

SameNameFamily ==
    {[MinimalPE32 EXCEPT !.secs = t] :
        t \in {<<TextRecord, OtherTextRecord>>, <<OtherTextRecord, TextRecord>>,
               <<TextRecord, DataRecord, OtherTextRecord>>}}

Fixtures ==
    HeaderFamily \cup TruncatedFamily \cup SectionFamily \cup OptionalSizeFamily
    \cup IndirectFamily
    \cup ImportFamily
    \cup LowOffsetFamily
    \cup EmbeddedNulFamily
    \cup SameNameFamily

\* the paths given to parse_pe: whether the path exists, its bytes, whether the file
\* behind it can be read (a directory cannot), and the bytes of the file
Files ==
    {[exists |-> TRUE, readable |-> TRUE, name |-> GoodName, content |-> p] :
        p \in Fixtures}
    \cup {[exists |-> e, readable |-> e, name |-> n, content |-> MinimalPE32] :
            e \in BOOLEAN,
            n \in {<<97>> \o DotDll, <<97, 46, 98, 105, 110>>, DotExe,
                   <<97, 255>> \o DotExe, <<97, 255, 46, 98, 105, 110>>}}
    \cup {[exists |-> TRUE, readable |-> FALSE, name |-> GoodName,
           content |-> MinimalPE32]}

\* the rvas asked of a parsed image
RvaProbes ==
    {U32(0), U32(2048), U32(4096), U32(6400), U32(10239), U32(10240),
     <<0, 248, 255, 255>>, <<255, 255, 255, 255>>}

(***************************************************************************)
(* parse_pe, one action per step                                           *)
(***************************************************************************)
\* str::ends_with on the bytes of a path
ends_with(name, suffix) ==
    /\ Len(name) >= Len(suffix)
    /\ SubSeq(name, Len(name) - Len(suffix) + 1, Len(name)) = suffix

\* the orders in which a HashMap with the keys `keys` may yield its values
Orders(keys) ==
    {o \in [1..Cardinality(keys) -> keys] :
        \A i, j \in 1..Cardinality(keys) : o[i] = o[j] => i = j}

\* an insert that keeps the entry of an equal key (entry().or_insert)
Insert_KeepFirst(map, key, value) ==
    [k \in DOMAIN map \cup {key} |-> IF k \in DOMAIN map THEN map[k] ELSE value]

\* HashMap::insert: the entry of an equal key is replaced
Insert(map, key, value) ==
    [k \in DOMAIN map \cup {key} |-> IF k = key THEN value ELSE map[k]]

\* the loop of parse_dll_names over the bytes of one name
RECURSIVE ReadUntilNul(_, _)
ReadUntilNul(d, pos) ==
    LET c == read_exact(d, pos, 1)
    IN  IF ~c.ok THEN [ok |-> FALSE, bytes |-> <<>>, position |-> pos]
        ELSE IF c.value[1] = 0 THEN [ok |-> TRUE, bytes |-> <<>>, position |-> c.position]
        ELSE LET rest == ReadUntilNul(d, c.position)
             IN  [ok |-> rest.ok,
                  bytes |-> <<c.value[1]>> \o rest.bytes,
                  position |-> rest.position]

\* the same step with the error dropped and the step left to run again
Abort_Ignore(r) ==
    /\ UNCHANGED <<pc, err>>
    /\ position' = r.position
    /\ max_read' = Max(max_read, r.hi)

\* a step that ends the parse: `?` on an Err, or a panic
Abort(r) ==
    /\ pc' = (IF r.kind = "panic" THEN "panicked" ELSE "failed")
    /\ err' = r.err
    /\ position' = r.position
    /\ max_read' = Max(max_read, r.hi)

\* parse_pe up to the creation of the cursor
OpenFile ==
    /\ pc = "start"
    /\ IF ~file.exists
       THEN pc' = "failed" /\ err' = "File does not exist" /\ UNCHANGED data
       ELSE IF ~Utf8Valid(file.name)
       THEN /\ pc' = "panicked"
            /\ err' = "Cannot convert file_path to str"
            /\ UNCHANGED data
       ELSE IF ~ends_with(file.name, DotExe) /\ ~ends_with(file.name, DotDll)
       THEN /\ pc' = "failed"
            /\ err' = "File is not a Portable Executable (.exe | .dll)"
            /\ UNCHANGED data
       ELSE IF ~file.readable
       THEN pc' = "panicked" /\ err' = "Unable to open file" /\ UNCHANGED data
       ELSE pc' = "dos_header" /\ data' = Image(file.content) /\ UNCHANGED err
    /\ tick' = ~tick
    /\ UNCHANGED <<entry, file, overflow_checks, position, max_read, dos, nt, optional_magic,
                   start_of_optional_position, optional, sections, section_order,
                   sections_read, section_starts, import_descriptors,
                   import_file_offset, dll_names, rva_query, rva_result>>

ParseDosHeader ==
    /\ pc = "dos_header"
    /\ LET r == DOSHeader_from_parser(data, position)
       IN  IF r.kind = "ok"
           THEN /\ dos' = r.value
                /\ position' = r.position
                /\ max_read' = Max(max_read, r.hi)
                /\ pc' = "nt_header"
                /\ UNCHANGED err
           ELSE Abort(r) /\ UNCHANGED dos
    /\ tick' = ~tick
    /\ UNCHANGED <<entry, file, overflow_checks, data, nt, optional_magic,
                   start_of_optional_position, optional, sections, section_order,
                   sections_read, section_starts, import_descriptors,
                   import_file_offset, dll_names, rva_query, rva_result>>

\* cursor.set_position(dos_header.e_lfanew as u64); NTHeader::from_parser
ParseNTHeader ==
    /\ pc = "nt_header"
    /\ LET r == NTHeader_from_parser(data, Widen(dos.e_lfanew, 8))
       IN  IF r.kind = "ok"
           THEN /\ nt' = r.value
                /\ position' = r.position
                /\ max_read' = Max(max_read, r.hi)
                /\ pc' = "optional_magic"
                /\ UNCHANGED err
           ELSE Abort(r) /\ UNCHANGED nt
    /\ tick' = ~tick
    /\ UNCHANGED <<entry, file, overflow_checks, data, dos, optional_magic,
                   start_of_optional_position, optional, sections, section_order,
                   sections_read, section_starts, import_descriptors,
                   import_file_offset, dll_names, rva_query, rva_result>>

\* the peek: read the magic, then move the cursor back by 2
PeekOptionalMagic ==
    /\ pc = "optional_magic"
    /\ LET m == read_exact(data, position, 2)
       IN  IF m.ok
           THEN /\ optional_magic' = m.value
                /\ position' = WrappingSub(m.position, U64(2))
                /\ start_of_optional_position' = WrappingSub(m.position, U64(2))
                /\ max_read' = Max(max_read, ToNat(m.position))
                /\ pc' = "optional_header"
                /\ UNCHANGED err
           ELSE /\ Abort(Failed(EofMessage, position, 0))
                /\ UNCHANGED <<optional_magic, start_of_optional_position>>
    /\ tick' = ~tick
    /\ UNCHANGED <<entry, file, overflow_checks, data, dos, nt, optional, sections,
                   section_order, sections_read, section_starts, import_descriptors,
                   import_file_offset, dll_names, rva_query, rva_result>>

\* the same match with the two variants exchanged
DecodeOptionalHeader_Swapped(d, pos, magic) ==
    IF magic = U16(PE_FORMAT_32_MAGIC) THEN OptionalHeader64_from_parser(d, pos)
    ELSE IF magic = U16(PE_FORMAT_64_MAGIC) THEN OptionalHeader32_from_parser(d, pos)
    ELSE Failed("Invalid PE optional header magic", pos, 0)

\* match optional_magic { ... }
DecodeOptionalHeader(d, pos, magic) ==
    IF magic = U16(PE_FORMAT_32_MAGIC) THEN OptionalHeader32_from_parser(d, pos)
    ELSE IF magic = U16(PE_FORMAT_64_MAGIC) THEN OptionalHeader64_from_parser(d, pos)
    ELSE Failed("Invalid PE optional header magic", pos, 0)

ParseOptionalHeader ==
    /\ pc = "optional_header"
    /\ LET r == DecodeOptionalHeader(data, position, optional_magic)
       IN  IF r.kind = "ok"
           THEN /\ optional' = r.value
                /\ position' = r.position
                /\ max_read' = Max(max_read, r.hi)
                /\ pc' = "optional_skip"
                /\ UNCHANGED err
           ELSE Abort(r) /\ UNCHANGED optional
    /\ tick' = ~tick
    /\ UNCHANGED <<entry, file, overflow_checks, data, dos, nt, optional_magic,
                   start_of_optional_position, sections, section_order,
                   sections_read, section_starts, import_descriptors,
                   import_file_offset, dll_names, rva_query, rva_result>>

\* cursor.set_position(cursor.position() + (size_of_optional_header - optional_size)),
\* all in u64: each operation aborts on overflow when the build checks it
SkipTarget(pos, start, declared, checks) ==
    LET optional_size == WrappingSub(pos, start)
        difference == WrappingSub(declared, optional_size)
    IN  IF checks /\ SubOverflows(declared, optional_size)
        THEN Panicked("attempt to subtract with overflow", pos, 0)
        ELSE IF checks /\ AddOverflows(pos, difference)
        THEN Panicked("attempt to add with overflow", pos, 0)
        ELSE Decoded(<<>>, WrappingAdd(pos, difference), 0)

SkipOptionalHeader ==
    /\ pc = "optional_skip"
    /\ LET r == SkipTarget(position, start_of_optional_position,
                           get_size_of_optional_header(nt), overflow_checks)
       IN  IF r.kind = "ok"
           THEN /\ position' = r.position
                /\ pc' = "sections"
                /\ UNCHANGED <<err, max_read>>
           ELSE Abort(r)
    /\ tick' = ~tick
    /\ UNCHANGED <<entry, file, overflow_checks, data, dos, nt, optional_magic,
                   start_of_optional_position, optional, sections, section_order,
                   sections_read, section_starts, import_descriptors,
                   import_file_offset, dll_names, rva_query, rva_result>>

\* one iteration of the section loop
ParseSection ==
    /\ pc = "sections"
    /\ sections_read < get_number_of_sections(nt)
    /\ LET r == SectionHeader_from_parser(data, position)
       IN  IF r.kind = "ok"
           THEN /\ sections' = Insert(sections, r.value.name, r.value)
                /\ section_order' \in Orders(DOMAIN sections \cup {r.value.name})
                /\ sections_read' = sections_read + 1
                /\ section_starts' = Append(section_starts, position)
                /\ position' = r.position
                /\ max_read' = Max(max_read, r.hi)
                /\ UNCHANGED <<pc, err>>
           ELSE /\ Abort(r)
                /\ UNCHANGED <<sections, section_order, sections_read, section_starts>>
    /\ tick' = ~tick
    /\ UNCHANGED <<entry, file, overflow_checks, data, dos, nt, optional_magic,
                   start_of_optional_position, optional, import_descriptors,
                   import_file_offset, dll_names, rva_query, rva_result>>

\* parse_import_descriptors up to its loop
BeginImportDescriptors ==
    /\ pc = "sections"
    /\ sections_read = get_number_of_sections(nt)
    /\ LET import_table_idd == get_import_table_idd(optional)
           r == convert_rva_to_file_offset(sections, section_order,
                                           import_table_idd.virtual_address,
                                           overflow_checks)
       IN  /\ import_file_offset' = r
           /\ IF r.kind = "panic"
              THEN /\ pc' = "panicked"
                   /\ err' = "attempt to add with overflow"
                   /\ UNCHANGED position
              ELSE IF r.kind = "None"
              THEN pc' = "dll_names" /\ UNCHANGED <<err, position>>
              ELSE /\ pc' = "import_descriptors"
                   /\ position' = r.value
                   /\ UNCHANGED err
    /\ tick' = ~tick
    /\ UNCHANGED <<entry, file, overflow_checks, data, max_read, dos, nt, optional_magic,
                   start_of_optional_position, optional, sections, section_order,
                   sections_read, section_starts, import_descriptors, dll_names,
                   rva_query, rva_result>>

\* one iteration of the descriptor loop
ParseImportDescriptor ==
    /\ pc = "import_descriptors"
    /\ LET r == ImageImportDescriptor_from_parser(data, position)
       IN  IF r.kind # "ok"
           THEN /\ Abort(Panicked("Cannot parse ImageImportDescriptor from the Import Table",
                                  r.position, r.hi))
                /\ UNCHANGED import_descriptors
           ELSE /\ position' = r.position
                /\ max_read' = Max(max_read, r.hi)
                /\ UNCHANGED err
                /\ IF is_zeroed_out(r.value)
                   THEN pc' = "dll_names" /\ UNCHANGED import_descriptors
                   ELSE /\ import_descriptors' = Append(import_descriptors, r.value)
                        /\ pc' = (IF CapReached(Append(import_descriptors, r.value))
                                  THEN "dll_names" ELSE "import_descriptors")
    /\ tick' = ~tick
    /\ UNCHANGED <<entry, file, overflow_checks, data, dos, nt, optional_magic,
                   start_of_optional_position, optional, sections, section_order,
                   sections_read, section_starts, import_file_offset, dll_names,
                   rva_query, rva_result>>

\* one iteration of the loop of parse_dll_names
DllName(d, pos, secs, order, descriptor, checks) ==
    LET off == convert_rva_to_file_offset(secs, order, descriptor.name_rva, checks)
    IN  IF off.kind = "panic"
        THEN Panicked("attempt to add with overflow", pos, 0)
        ELSE IF off.kind = "None"
        THEN Failed("Import Descriptor Name RVA does not map to any section", pos, 0)
        ELSE LET n == ReadUntilNul(d, off.value)
             IN  IF ~n.ok
                 THEN Failed(EofMessage, n.position, HighRead(off.value, n.position))
                 ELSE IF ~Utf8Valid(n.bytes)
                 THEN Panicked("Invalid name found in import names",
                               n.position, ToNat(n.position))
                 ELSE Decoded(n.bytes, n.position, ToNat(n.position))

ParseDllName ==
    /\ pc = "dll_names"
    /\ Len(dll_names) < Len(import_descriptors)
    /\ LET r == DllName(data, position, sections, section_order,
                        import_descriptors[Len(dll_names) + 1], overflow_checks)
       IN  IF r.kind = "ok"
           THEN /\ dll_names' = Append(dll_names, r.value)
                /\ position' = r.position
                /\ max_read' = Max(max_read, r.hi)
                /\ UNCHANGED <<pc, err>>
           ELSE Abort(r) /\ UNCHANGED dll_names
    /\ tick' = ~tick
    /\ UNCHANGED <<entry, file, overflow_checks, data, dos, nt, optional_magic,
                   start_of_optional_position, optional, sections, section_order,
                   sections_read, section_starts, import_descriptors,
                   import_file_offset, rva_query, rva_result>>

\* return Ok(pe)
ReturnPe ==
    /\ pc = "dll_names"
    /\ Len(dll_names) = Len(import_descriptors)
    /\ pc' = "done"
    /\ tick' = ~tick
    /\ UNCHANGED <<entry, file, overflow_checks, err, data, position, max_read, dos, nt,
                   optional_magic, start_of_optional_position, optional, sections,
                   section_order, sections_read, section_starts, import_descriptors,
                   import_file_offset, dll_names, rva_query, rva_result>>

\* a call of convert_rva_to_file_offset on the parsed image
ConvertRva(rva) ==
    /\ pc = "done"
    /\ rva_query' = rva
    /\ rva_result' = convert_rva_to_file_offset(sections, section_order, rva,
                                                overflow_checks)
    /\ UNCHANGED <<tick, entry, file, overflow_checks, pc, err, data, position, max_read,
                   dos, nt, optional_magic, start_of_optional_position, optional, sections,
                   section_order, sections_read, section_starts, import_descriptors,
                   import_file_offset, dll_names>>

Init ==
    /\ file \in Files
    /\ overflow_checks \in BOOLEAN
    /\ pc = "start"
    /\ err = ""
    /\ data = <<>>
    /\ position = U64(0)
    /\ max_read = 0
    /\ dos = DefaultDOSHeader
    /\ nt = DefaultNTHeader
    /\ optional_magic = U16(0)
    /\ start_of_optional_position = U64(0)
    /\ optional = DefaultOptionalHeader
    /\ sections = << >>
    /\ section_order = << >>
    /\ sections_read = 0
    /\ section_starts = << >>
    /\ import_descriptors = << >>
    /\ import_file_offset = Unasked
    /\ dll_names = << >>
    /\ rva_query = U32(0)
    /\ rva_result = Unasked
    /\ entry = NoEntry
    /\ tick = FALSE

Next ==
    \/ OpenFile
    \/ ParseDosHeader
    \/ ParseNTHeader
    \/ PeekOptionalMagic
    \/ ParseOptionalHeader
    \/ SkipOptionalHeader
    \/ ParseSection
    \/ BeginImportDescriptors
    \/ ParseImportDescriptor
    \/ ParseDllName
    \/ ReturnPe
    \/ \E rva \in RvaProbes : ConvertRva(rva)

Spec == Init /\ [][Next]_vars

\* parse_pe is running: it has neither returned nor panicked
Running == pc \notin {"done", "failed", "panicked"}

\* parse_pe executes its next step.  A call runs on one thread from its first
\* statement to a return or a panic, so while it is running it keeps taking steps;
\* every step of parse_pe flips tick, also one that leaves the other variables as
\* they are.
Execute == Running /\ tick' = ~tick

FairSpec == Init /\ [][Next]_vars /\ WF_tick(Execute)

(***************************************************************************)
(* Import lookup entries and hint/name entries.  parse_pe does not walk    *)
(* them; the decoders are applied on their own to a buffer that holds one  *)
(* entry.                                                                  *)
(***************************************************************************)
ORDINAL_FLAG == <<0, 0, 0, 128>>            \* 0x80000000
ORDINAL_FLAG_64 == Zeros(4) \o ORDINAL_FLAG \* 0x8000000000000000
ORDINAL_MASK == <<255, 255, 0, 0>>          \* 0xFFFF
HINT_NAME_RVA_MASK == <<255, 255, 255, 7>>  \* 0x7FFFFFF

DefaultImportLookupEntry ==
    [by_ordinal |-> FALSE, ordinal_number |-> U16(0), hint_name_table_rva |-> U32(0)]

ImportLookupEntry_from_parser(d, pos, is_32_bits_) ==
    LET width == IF is_32_bits_ THEN 4 ELSE 8
        flag == IF is_32_bits_ THEN ORDINAL_FLAG ELSE ORDINAL_FLAG_64
        r == read_exact(d, pos, width)
    IN  IF ~r.ok THEN Failed(EofMessage, r.position, 0)
        ELSE LET by_ordinal == ~IsZero(BitAnd(r.value, flag))
             IN  Decoded(
                     IF by_ordinal
                     THEN [DefaultImportLookupEntry EXCEPT
                             !.by_ordinal = TRUE,
                             !.ordinal_number =
                                 Truncate(BitAnd(r.value, Widen(ORDINAL_MASK, width)), 2)]
                     ELSE [DefaultImportLookupEntry EXCEPT
                             !.hint_name_table_rva =
                                 Truncate(BitAnd(r.value, Widen(HINT_NAME_RVA_MASK, width)), 4)],
                     r.position, ToNat(r.position))

HintNameEntry_from_parser(d, pos) ==
    LET hint == read_exact(d, pos, 2)
    IN  IF ~hint.ok THEN Failed(EofMessage, pos, 0)
        ELSE LET name == ReadUntilNul(d, hint.position)
             IN  IF ~name.ok
                 THEN Failed(EofMessage, name.position, ToNat(name.position))
                 ELSE LET odd == (Len(name.bytes) % 2) # 0
                          padding == read_exact(d, name.position, 1)
                          end == IF odd THEN padding.position ELSE name.position
                      IN  IF odd /\ ~padding.ok
                          THEN Failed(EofMessage, name.position, ToNat(name.position))
                          ELSE IF ~Utf8Valid(name.bytes)
                          THEN Panicked("Invalid name found in Hint/Name Table",
                                        end, ToNat(end))
                          ELSE Decoded([hint |-> hint.value,
                                        name |-> name.bytes,
                                        pad |-> odd],
                                       end, ToNat(end))

MaxName == 3            \* bytes of the name of a hint/name entry

\* buffers that hold one hint/name entry: a hint, a name, and what follows the name
EntryNames == UNION {[1..n -> {97, 98}] : n \in 0..MaxName}

EntryTails == {<<>>, <<0>>, <<0, 0>>, <<0, 7>>, <<0, 7, 7>>}

HintNameBuffers == {<<1, 0>> \o n \o t : n \in EntryNames, t \in EntryTails}

\* buffers that hold one import lookup entry, or the start of one
LookupBuffers ==
    {<<0, 16, 0, 0, 0, 0, 0, 0>>,
     <<255, 255, 255, 7, 0, 0, 0, 0>>,
     <<0, 0, 0, 8, 0, 0, 0, 0>>,
     <<255, 255, 255, 127, 0, 0, 0, 0>>,
     <<1, 0, 0, 128, 0, 0, 0, 0>>,
     <<52, 18, 1, 128, 0, 0, 0, 0>>,
     <<52, 18, 1, 0, 0, 0, 0, 128>>,
     <<0, 16, 0, 0, 1, 0, 0, 0>>,
     <<255, 255, 255, 255, 255, 255, 255, 255>>,
     <<0, 16, 0, 0>>,
     <<0, 16>>}

EntryBuffers == HintNameBuffers \cup LookupBuffers

\* ImportLookupEntry::from_parser on the buffer
ReadImportLookupEntry(is_32_bits_) ==
    /\ pc = "entry"
    /\ LET r == ImportLookupEntry_from_parser(data, position, is_32_bits_)
       IN  /\ entry' = [kind |-> IF is_32_bits_ THEN "lookup32" ELSE "lookup64",
                        result |-> r]
           /\ position' = r.position
           /\ max_read' = Max(max_read, r.hi)
           /\ err' = r.err
           /\ pc' = "entry_done"
    /\ UNCHANGED <<tick, file, overflow_checks, data, dos, nt, optional_magic,
                   start_of_optional_position, optional, sections, section_order,
                   sections_read, section_starts, import_descriptors,
                   import_file_offset, dll_names, rva_query, rva_result>>

\* HintNameEntry::from_parser on the buffer
ReadHintNameEntry ==
    /\ pc = "entry"
    /\ LET r == HintNameEntry_from_parser(data, position)
       IN  /\ entry' = [kind |-> "hint_name", result |-> r]
           /\ position' = r.position
           /\ max_read' = Max(max_read, r.hi)
           /\ err' = r.err
           /\ pc' = "entry_done"
    /\ UNCHANGED <<tick, file, overflow_checks, data, dos, nt, optional_magic,
                   start_of_optional_position, optional, sections, section_order,
                   sections_read, section_starts, import_descriptors,
                   import_file_offset, dll_names, rva_query, rva_result>>

EntryInit ==
    /\ file = [exists |-> TRUE, readable |-> TRUE, name |-> GoodName,
               content |-> MinimalPE32]
    /\ overflow_checks \in BOOLEAN
    /\ pc = "entry"
    /\ err = ""
    /\ data \in EntryBuffers
    /\ position = U64(0)
    /\ max_read = 0
    /\ dos = DefaultDOSHeader
    /\ nt = DefaultNTHeader
    /\ optional_magic = U16(0)
    /\ start_of_optional_position = U64(0)
    /\ optional = DefaultOptionalHeader
    /\ sections = << >>
    /\ section_order = << >>
    /\ sections_read = 0
    /\ section_starts = << >>
    /\ import_descriptors = << >>
    /\ import_file_offset = Unasked
    /\ dll_names = << >>
    /\ rva_query = U32(0)
    /\ rva_result = Unasked
    /\ entry = NoEntry
    /\ tick = FALSE

EntryNext ==
    \/ \E b \in BOOLEAN : ReadImportLookupEntry(b)
    \/ ReadHintNameEntry

EntrySpec == EntryInit /\ [][EntryNext]_vars

(***************************************************************************)
(* Properties                                                              *)
(***************************************************************************)
Terminal == {"done", "failed", "panicked"}

\* the bytes of the buffer at [off, off + n), read from the buffer itself
BytesAt(off, n) == SubSeq(data, off + 1, off + n)

DosHeaderValid == dos.e_magic = U16(DOS_MAGIC)

\* C1: a buffer whose first two bytes are not "MZ" makes the parse fail with the
\* invalid-DOS-magic error, no byte after the first two having been read and no
\* header having been decoded.
C1_InvalidDosMagic ==
    (pc \notin {"start", "dos_header"} /\ Len(data) >= 2 /\ BytesAt(0, 2) # <<77, 90>>)
    => /\ pc = "failed"
       /\ err = "Invalid DOS magic number"
       /\ max_read = 2
       /\ dos = DefaultDOSHeader
       /\ nt = DefaultNTHeader
       /\ optional = DefaultOptionalHeader
       /\ sections = << >>

C1_Witness ==
    /\ pc = "failed"
    /\ err = "Invalid DOS magic number"
    /\ Len(data) > 64
    /\ BytesAt(0, 2) = <<90, 77>>

\* C2: after a valid DOS header the 4-byte signature is read at the offset stored at
\* 0x3C; when it is not "PE\0\0" the parse fails with the invalid-PE-signature error
\* and neither the COFF header nor the Optional Header is decoded.
C2_InvalidPeSignature ==
    (DosHeaderValid /\ pc # "nt_header")
    => LET lfanew == BytesAt(60, 4)
           sig == read_exact(data, Widen(lfanew, 8), 4)
       IN  /\ dos.e_lfanew = lfanew
           /\ pc # "failed" => (sig.ok /\ nt.signature = sig.value)
           /\ (sig.ok /\ sig.value # <<80, 69, 0, 0>>)
              => /\ pc = "failed"
                 /\ err = "Invalid PE signature in NT Header"
                 /\ position = sig.position
                 /\ max_read = Max(64, ToNat(sig.position))
                 /\ nt = DefaultNTHeader
                 /\ optional = DefaultOptionalHeader
                 /\ sections = << >>

C2_Witness ==
    /\ pc = "failed"
    /\ err = "Invalid PE signature in NT Header"
    /\ DosHeaderValid
    /\ dos.e_lfanew = U32(128)
    /\ BytesAt(128, 4) = <<80, 69, 0, 1>>
    /\ Len(data) >= 128 + 4 + 20 + 224

\* C3: the 2 bytes after the 20-byte COFF header select the variant: 0x10B gives the
\* 32-bit one (4-byte image_base), 0x20B the 64-bit one (8-byte image_base), any other
\* value the unknown-magic error; after the peek the cursor is back at the start of the
\* Optional Header, and the magic is decoded again as the variant's first field.
NtHeaderValid == nt.signature = U32(NT_PE_SIGNATURE)

OptionalStart == ToNat(dos.e_lfanew) + 4 + 20

C3_OptionalVariant ==
    (NtHeaderValid /\ pc # "optional_magic" /\ Len(data) >= OptionalStart + 2)
    => LET magic == BytesAt(OptionalStart, 2)
       IN  /\ optional_magic = magic
           /\ start_of_optional_position = U64(OptionalStart)
           /\ pc = "optional_header" => position = U64(OptionalStart)
           /\ (pc # "optional_header" /\ magic = <<11, 1>>
                  /\ Len(data) >= OptionalStart + 224)
              => /\ optional.variant = "PE32"
                 /\ is_32_bits(optional)
                 /\ optional.magic = magic
                 /\ optional.image_base = BytesAt(OptionalStart + 28, 4)
                 /\ pc = "optional_skip" => position = U64(OptionalStart + 224)
           /\ (pc # "optional_header" /\ magic = <<11, 2>>
                  /\ Len(data) >= OptionalStart + 240)
              => /\ optional.variant = "PE64"
                 /\ ~is_32_bits(optional)
                 /\ optional.magic = magic
                 /\ optional.image_base = BytesAt(OptionalStart + 24, 8)
                 /\ pc = "optional_skip" => position = U64(OptionalStart + 240)
           /\ (pc # "optional_header" /\ magic \notin {<<11, 1>>, <<11, 2>>})
              => /\ pc = "failed"
                 /\ err = "Invalid PE optional header magic"
                 /\ optional = DefaultOptionalHeader

C3_Witness ==
    /\ pc = "done"
    /\ optional.variant = "PE64"
    /\ optional.magic = <<11, 2>>
    /\ optional.image_base = ImageBase64

\* C4: a minimal well-formed PE32 buffer ("MZ", e_lfanew = 0x80, "PE\0\0" at 0x80, one
\* section, size_of_optional_header = 224, magic 0x10B, import directory (0,0), one
\* section record named ".text") parses successfully; the section count is 1 and the
\* section map holds ".text".
IsMinimalPE32 ==
    /\ Len(data) >= 416
    /\ BytesAt(0, 2) = <<77, 90>>
    /\ BytesAt(60, 4) = <<128, 0, 0, 0>>
    /\ BytesAt(128, 4) = <<80, 69, 0, 0>>
    /\ BytesAt(134, 2) = <<1, 0>>
    /\ BytesAt(148, 2) = <<224, 0>>
    /\ BytesAt(152, 2) = <<11, 1>>
    /\ BytesAt(152 + 104, 8) = Zeros(8)
    /\ BytesAt(376, 8) = <<46, 116, 101, 120, 116, 0, 0, 0>>
    \* well-formed: the section does not lie at address 0 and ends below 2^32
    /\ ~IsZero(BytesAt(376 + 12, 4))
    /\ ~AddOverflows(BytesAt(376 + 12, 4), BytesAt(376 + 8, 4))

C4_MinimalFixture ==
    (pc # "start" /\ IsMinimalPE32)
    => /\ pc \notin {"failed", "panicked"}
       /\ pc \in {"dll_names", "done"}
          => /\ get_number_of_sections(nt) = 1
             /\ DOMAIN sections = {<<46, 116, 101, 120, 116>>}
             /\ Cardinality(DOMAIN sections) = 1
             /\ import_descriptors = << >>
       /\ pc = "done" => dll_names = << >>

C4_Witness ==
    /\ pc = "done"
    /\ IsMinimalPE32
    /\ Len(data) = 416
    /\ <<46, 116, 101, 120, 116>> \in DOMAIN sections

\* The calls of convert_rva_to_file_offset a state records: the one that opens the
\* import walk and the last one made on the parsed image.
Calls ==
    (IF import_file_offset.kind = "unasked" THEN {}
     ELSE {[rva |-> get_import_table_idd(optional).virtual_address,
            result |-> import_file_offset]})
    \cup (IF rva_result.kind = "unasked" THEN {}
          ELSE {[rva |-> rva_query, result |-> rva_result]})

\* virtual_address <= rva < virtual_address + virtual_size, in unbounded arithmetic
InVirtualRange(h, rva) ==
    /\ Ge(rva, h.virtual_address)
    /\ \/ AddOverflows(h.virtual_address, h.virtual_size)
       \/ Lt(rva, WrappingAdd(h.virtual_address, h.virtual_size))

\* ptr_to_raw_data + (rva - virtual_address), as a u64
ExpectedOffset(h, rva) ==
    WrappingAdd(Widen(h.ptr_to_raw_data, 8), Widen(WrappingSub(rva, h.virtual_address), 8))

\* C5: for an rva inside the virtual range of a section, the call returns
\* Some(ptr_to_raw_data + (rva - virtual_address)) computed from that section.
C5_InRangeTranslates ==
    \A c \in Calls : \A n \in DOMAIN sections :
        InVirtualRange(sections[n], c.rva)
        => c.result = Some(ExpectedOffset(sections[n], c.rva))

\* C6: for an rva inside no section's virtual range the call returns None.
C6_OutOfRangeIsNone ==
    \A c \in Calls :
        (\A n \in DOMAIN sections : ~InVirtualRange(sections[n], c.rva))
        => c.result = None

\* C7: every call returns Some or None, whatever the 32-bit values of the section
\* fields: it never aborts, and what it returns as Some is the offset of a section
\* whose range holds the rva.
C7_Total ==
    \A c \in Calls :
        /\ c.result.kind \in {"Some", "None"}
        /\ c.result.kind = "Some"
           => \E n \in DOMAIN sections :
                 /\ InVirtualRange(sections[n], c.rva)
                 /\ c.result.value = ExpectedOffset(sections[n], c.rva)

\* no section's virtual_address + virtual_size exceeds 2^32 - 1
NoSectionOverflows ==
    \A n \in DOMAIN sections :
        ~AddOverflows(sections[n].virtual_address, sections[n].virtual_size)

\* C8: the result of a call does not depend on the order in which the section map is
\* iterated, also when two sections hold the rva (stated for the section tables none
\* of whose ranges exceeds 2^32 - 1, where the addition of C7 is exact).
C8_OrderIndependent ==
    NoSectionOverflows
    => \A c \in Calls : \A o \in Orders(DOMAIN sections) :
          convert_rva_to_file_offset(sections, o, c.rva, overflow_checks) = c.result

\* C9: with the import directory (0,0) the walk yields no descriptor and no DLL name,
\* and the parse goes on to succeed, whatever the section table (stated for the
\* section tables none of whose ranges exceeds 2^32 - 1, where the addition of C7 is
\* exact).
C9_AbsentImportDirectory ==
    (/\ import_file_offset.kind # "unasked"
     /\ NoSectionOverflows
     /\ IsZero(get_import_table_idd(optional).virtual_address)
     /\ IsZero(get_import_table_idd(optional).size))
    => /\ import_file_offset = None
       /\ import_descriptors = << >>
       /\ dll_names = << >>
       /\ pc \in {"dll_names", "done"}

\* C10: the descriptor scan collects at most 256 descriptors.
C10_DescriptorCap == Len(import_descriptors) <= DESCRIPTOR_CAP

\* the record that follows the descriptors collected is an all-zero terminator
EndedAtTerminator ==
    LET r == ImageImportDescriptor_from_parser(
                 data, AddNat(import_file_offset.value, 20 * Len(import_descriptors)))
    IN  r.kind = "ok" /\ is_zeroed_out(r.value)

\* C11: a descriptor scan that returns its list to parse_pe has ended at an all-zero
\* terminator: a scan that ends at the cap with no terminator seen is reported as an
\* error and the parse does not go on with the list.
C11_CapIsReported ==
    (import_file_offset.kind = "Some" /\ pc \in {"dll_names", "done"})
    => EndedAtTerminator

\* the number of name bytes before the NUL of the hint/name entry at offset 0
NameLength ==
    CHOOSE k \in 0..Len(data) :
        /\ 2 + k + 1 <= Len(data)
        /\ data[2 + k + 1] = 0
        /\ \A j \in 0..(k - 1) : data[2 + j + 1] # 0

HoldsEntry ==
    /\ \E k \in 0..Len(data) : 2 + k + 1 <= Len(data) /\ data[2 + k + 1] = 0
    /\ 2 + (NameLength + 1) + ((NameLength + 1) % 2) <= Len(data)

\* C12: a hint/name entry whose name, NUL included, has an odd length is decoded with
\* one padding byte consumed and pad = TRUE, one of even length with none and
\* pad = FALSE: the cursor advances by 2 + (len + 1) + ((len + 1) mod 2).
C12_HintNamePadding ==
    (entry.kind = "hint_name" /\ HoldsEntry)
    => /\ entry.result.kind = "ok"
       /\ entry.result.value.hint = BytesAt(0, 2)
       /\ entry.result.value.name = BytesAt(2, NameLength)
       /\ entry.result.value.pad = (((NameLength + 1) % 2) = 1)
       /\ position = U64(2 + (NameLength + 1) + ((NameLength + 1) % 2))

\* the start of the section record read last, as a buffer offset
LastSectionStart == ToNat(section_starts[sections_read])

\* the section loop has just decoded a record whose first name byte is NUL
EmptyRecordRead ==
    /\ pc = "sections"
    /\ sections_read >= 1
    /\ data[LastSectionStart + 1] = 0

NextRecordStartsWith(b) ==
    /\ pc = "sections"
    /\ sections_read < get_number_of_sections(nt)
    /\ read_exact(data, position, 1).ok
    /\ data[ToNat(position) + 1] = b

\* C14: the decode of a section record whose first name byte is '/' ends the parse
\* with an error value returned: no section is added and the process does not abort.
C14_IndirectNameIsError ==
    [][NextRecordStartsWith(SLASH) => (pc' = "failed" /\ sections' = sections)]_vars

\* C15: after a successful parse the section map holds as many sections as the COFF
\* header's number_of_sections says, also when names repeat in the table.
C15_SectionCount ==
    pc = "done" => Cardinality(DOMAIN sections) = get_number_of_sections(nt)

\* the descriptor whose DLL name parse_dll_names decodes next
NextDescriptor == import_descriptors[Len(dll_names) + 1]

\* the sections whose virtual range holds the rva
Holders(rva) == {n \in DOMAIN sections : InVirtualRange(sections[n], rva)}

\* the NUL-terminated bytes at a file offset
NameAt(offset) == ReadUntilNul(data, offset).bytes

\* C16: for each descriptor parse_dll_names translates name_rva and decodes the
\* NUL-terminated name at the translated offset; when name_rva lies in no section the
\* parse fails with the dangling-reference error value, no name being read.
C16_DanglingNameRva ==
    [][(pc = "dll_names" /\ Len(dll_names) < Len(import_descriptors))
       => /\ Holders(NextDescriptor.name_rva) = {}
             => /\ pc' = "failed"
                /\ err' = "Import Descriptor Name RVA does not map to any section"
                /\ dll_names' = dll_names
          /\ (Holders(NextDescriptor.name_rva) # {} /\ pc' = "dll_names")
             => \E n \in Holders(NextDescriptor.name_rva) :
                   dll_names' =
                       Append(dll_names,
                              NameAt(ExpectedOffset(sections[n], NextDescriptor.name_rva)))
      ]_vars

\* the width of the entry the last decoder call was asked for
EntryWidth == IF entry.kind = "lookup32" THEN 4 ELSE 8

\* C17: a lookup entry of either width is by-ordinal exactly when the top bit of the raw
\* field is set; then the ordinal is the low 16 bits, and otherwise
\* hint_name_table_rva is the low 31 bits of the raw field.
C17_LookupEntryBits ==
    (entry.kind \in {"lookup32", "lookup64"} /\ Len(data) >= EntryWidth)
    => LET raw == BytesAt(0, EntryWidth)
           top == raw[EntryWidth] >= 128
       IN  /\ entry.result.kind = "ok"
           /\ entry.result.value.by_ordinal = top
           /\ top => entry.result.value.ordinal_number = <<raw[1], raw[2]>>
           /\ ~top => entry.result.value.hint_name_table_rva
                         = <<raw[1], raw[2], raw[3], raw[4] % 128>>

\* the last four bytes of the path are those of the extension
HasExtension(ext) ==
    /\ Len(file.name) >= 4
    /\ SubSeq(file.name, Len(file.name) - 3, Len(file.name)) = ext

\* the path exists and ends in .exe or .dll
Accepted ==
    /\ file.exists
    /\ HasExtension(<<46, 101, 120, 101>>) \/ HasExtension(<<46, 100, 108, 108>>)

\* C18: a path that does not exist fails with the file-not-found error and one of
\* another extension than .exe and .dll with the not-a-PE-file error, in both cases
\* with no byte of the file read; bytes are read and decoded for accepted paths only.
C18_PathChecksFirst ==
    /\ (pc # "start" /\ ~file.exists)
       => /\ pc = "failed"
          /\ err = "File does not exist"
          /\ data = << >>
          /\ max_read = 0
    /\ (pc # "start" /\ file.exists /\ ~Accepted)
       => /\ pc = "failed"
          /\ err = "File is not a Portable Executable (.exe | .dll)"
          /\ data = << >>
          /\ max_read = 0
    /\ (data # << >> \/ max_read > 0 \/ pc \notin {"start", "failed"}) => Accepted
    /\ (pc # "start" /\ Accepted)
       => err \notin {"File does not exist",
                      "File is not a Portable Executable (.exe | .dll)"}

\* the size of the Optional Header variant the peeked magic selects
VariantSize == IF optional_magic = U16(PE_FORMAT_32_MAGIC) THEN 224 ELSE 240

\* the structure the next step decodes does not fit between the cursor and the end of
\* the buffer: a read of the step goes past the end
HeaderTruncated ==
    \/ pc = "dos_header" /\ ~read_exact(data, position, 2).ok
    \/ pc = "nt_header" /\ ~read_exact(data, Widen(dos.e_lfanew, 8), 4).ok
    \/ pc = "optional_magic" /\ ~read_exact(data, position, 2).ok
    \/ /\ pc = "optional_header"
       /\ optional_magic \in {U16(PE_FORMAT_32_MAGIC), U16(PE_FORMAT_64_MAGIC)}
       /\ ~read_exact(data, position, VariantSize).ok
    \/ /\ pc = "sections"
       /\ sections_read < get_number_of_sections(nt)
       /\ ~read_exact(data, position, 1).ok

DescriptorTruncated ==
    pc = "import_descriptors" /\ ~read_exact(data, position, 20).ok

\* C19: a step whose read goes past the end of the buffer ends the parse with the
\* truncated-input error value: parse_pe neither aborts nor goes on to return an image.
C19_TruncatedIsError ==
    [][(HeaderTruncated \/ DescriptorTruncated)
       => (pc' = "failed" /\ err' = EofMessage)]_vars

\* C20: after the Optional Header the cursor is moved to the start of the Optional
\* Header plus the declared size_of_optional_header, where the first section record is
\* read, also when the declared size is smaller than what the variant consumed.
C20_SkipToDeclaredSize ==
    [][pc = "optional_skip"
       => /\ pc' = "sections"
          /\ position' = U64(OptionalStart + ToNat(nt.coff_header.size_of_optional_header))
      ]_vars

\* the position the step enabled in the state sets the cursor to before it decodes:
\* set_position(e_lfanew), set_position(file_offset) of the import table and of a
\* DLL name; the current position for a step that reads on
SeekTarget ==
    IF pc = "nt_header" THEN Widen(dos.e_lfanew, 8)
    ELSE IF pc = "sections" /\ sections_read = get_number_of_sections(nt)
    THEN LET r == convert_rva_to_file_offset(sections, section_order,
                      get_import_table_idd(optional).virtual_address, overflow_checks)
         IN  IF r.kind = "Some" THEN r.value ELSE position
    ELSE IF pc = "dll_names" /\ Len(dll_names) < Len(import_descriptors)
    THEN LET r == convert_rva_to_file_offset(sections, section_order,
                      import_descriptors[Len(dll_names) + 1].name_rva, overflow_checks)
         IN  IF r.kind = "Some" THEN r.value ELSE position
    ELSE position

\* the steps that are allowed to move the cursor back: the peek of the magic and
\* the skip after the Optional Header
RewindSteps == {"optional_magic", "optional_skip"}

\* C21 (as stated): apart from the rewind after the peek and the skip after the
\* Optional Header, no step of a parse leaves the cursor at a position lower than
\* the one it started at.
C21_ForwardOnly ==
    [][pc \notin RewindSteps => Ge(position', position)]_vars

\* C21 (amended): apart from the rewind after the peek and the skip after the
\* Optional Header, a step leaves the cursor at or after the position it decodes
\* from, which is the current position or, for the seeks to e_lfanew, to the import
\* table and to a DLL name, the offset taken from the file, whether or not that
\* offset is lower than the current position.
C21_ForwardFromSeekTarget ==
    [][pc \notin RewindSteps => Ge(position', SeekTarget)]_vars

\* a DLL name has been read from an offset before the descriptors that name it
C21_Witness ==
    /\ pc = "done"
    /\ Len(dll_names) > 0
    /\ import_file_offset.kind = "Some"
    /\ Lt(position, import_file_offset.value)

\* each of the three seeks to an offset of the file is reached going backward
C21_NoBackwardLfanew == pc = "nt_header" => Ge(SeekTarget, position)
C21_NoBackwardImportTable ==
    (pc = "sections" /\ sections_read = get_number_of_sections(nt))
        => Ge(SeekTarget, position)
C21_NoBackwardDllName == pc = "dll_names" => Ge(SeekTarget, position)

\* the section loop has just decoded a record with an inline name
InlineRecordRead ==
    /\ pc = "sections"
    /\ sections_read >= 1
    /\ data[LastSectionStart + 1] \notin {0, SLASH}

\* the bytes of a name field before its first NUL
RECURSIVE C22_UpToNul(_)
C22_UpToNul(bytes) ==
    IF bytes = <<>> \/ Head(bytes) = 0 THEN <<>>
    ELSE <<Head(bytes)>> \o C22_UpToNul(Tail(bytes))

\* C22: the name decoded from a record whose first name byte is neither NUL nor '/'
\* is made of the bytes of the 8-byte name field before its first NUL; the bytes
\* after an embedded NUL are not part of it.
C22_NameStopsAtNul ==
    InlineRecordRead => C22_UpToNul(BytesAt(LastSectionStart, 8)) \in DOMAIN sections

\* the headers the records read by the section loop decode to, in table order
RecordsRead ==
    [i \in 1..sections_read |->
        SectionHeader_from_parser(data, section_starts[i]).value] \o <<>>

\* the last of the records recs that is named k
LastNamed(recs, k) ==
    CHOOSE i \in 1..Len(recs) :
        /\ recs[i].name = k
        /\ \A j \in (i + 1)..Len(recs) : recs[j].name # k

\* C23: after every insertion of the section loop, and when the parse returns, the
\* section map holds one entry per name decoded from the table, and under each name
\* the header of the last record of that name (last write wins), whatever the order
\* in which the map yields its entries.
C23_LastWriteWins ==
    (pc = "sections" \/ (pc = "done" /\ rva_result = Unasked))
    => LET recs == RecordsRead
       IN  /\ DOMAIN sections = {recs[i].name : i \in 1..Len(recs)}
           /\ \A k \in DOMAIN sections : sections[k] = recs[LastNamed(recs, k)]

\* two records of one name and different fields were read, around a third section
C23_Witness ==
    /\ pc = "done"
    /\ sections_read = 3
    /\ RecordsRead[1].name = RecordsRead[3].name
    /\ RecordsRead[1] # RecordsRead[3]
    /\ Cardinality(DOMAIN sections) = 2
    /\ sections[RecordsRead[1].name] = RecordsRead[3]

\* the i-th 20-byte record of the import table (i from 0)
DescriptorAt(i) ==
    ImageImportDescriptor_from_parser(data, AddNat(import_file_offset.value, 20 * i))

IsTerminatorAt(i) == DescriptorAt(i).kind = "ok" /\ is_zeroed_out(DescriptorAt(i).value)

\* the whole 20-byte records the buffer holds from the start of the import table
TableRecords ==
    IF ToNat(import_file_offset.value) > Len(data) THEN 0
    ELSE (Len(data) - ToNat(import_file_offset.value)) \div 20

\* parse_import_descriptors has just returned the list of a table it found
ScanReturned ==
    /\ pc = "dll_names"
    /\ dll_names = <<>>
    /\ import_file_offset.kind = "Some"

\* C24: when the import table holds an all-zero record, the list the scan returns is
\* made of the records before the first such record, in file order: every record
\* collected has a non-zero field, and the record after the last one collected is
\* the terminator.
C24_StopsAtFirstTerminator ==
    (ScanReturned /\ \E t \in 0..(TableRecords - 1) : IsTerminatorAt(t))
    => /\ IsTerminatorAt(Len(import_descriptors))
       /\ \A i \in 1..Len(import_descriptors) :
             /\ import_descriptors[i] = DescriptorAt(i - 1).value
             /\ ~is_zeroed_out(import_descriptors[i])

\* where the skip after the Optional Header leaves the cursor: the start of the
\* Optional Header plus the size the COFF header declares
SectionTableStart ==
    WrappingAdd(start_of_optional_position, get_size_of_optional_header(nt))

\* 40 * i bytes after the start of the section table
RecordOffset(i) == AddNat(SectionTableStart, 40 * i)

\* C25: every section record decoded, whatever the form of its name, leaves the
\* cursor 40 bytes after its start: the i-th record of the table (i from 0) is
\* decoded from the start of the table plus 40 * i, and after the last record read
\* the cursor is at the start of the next one.
C25_RecordsAre40Bytes ==
    /\ \A i \in 1..sections_read : section_starts[i] = RecordOffset(i - 1)
    /\ (pc = "sections" /\ sections_read >= 1) => position = RecordOffset(sections_read)

\* a record with a NUL inside its name, then a record of the empty form, were read
C25_Witness ==
    /\ pc = "sections"
    /\ sections_read = 2
    /\ BytesAt(ToNat(section_starts[1]), 3) = NameGap
    /\ data[ToNat(section_starts[2]) + 1] = 0
    /\ section_starts[2] = RecordOffset(1)
    /\ position = RecordOffset(2)

\* C26: every call of parse_pe terminates: it returns the image, returns an error
\* or panics, whatever the buffer holds.
C26_Terminates == <>(pc \in Terminal)

\* a parse has returned after its descriptor loop ran up to the cap and its name
\* loop ran once per descriptor
C26_Witness ==
    /\ pc = "done"
    /\ Len(import_descriptors) = DESCRIPTOR_CAP + 1
    /\ Len(dll_names) = Len(import_descriptors)

====
